---- MODULE Spec2Model ----
(***************************************************************************)
(* Delivery guarantees of src/01-guarantees/solution/guarantees.py:        *)
(* at-most-once, at-least-once, exactly-once and exactly-once-ordered      *)
(* sender/receiver pairs over a channel that drops, duplicates, delays     *)
(* and reorders.  Every process is a single-threaded actor: one action of  *)
(* this module is one complete handler (on_local_message, on_message,      *)
(* on_timer) together with every call it makes.                            *)
(***************************************************************************)
EXTENDS Integers, Sequences, FiniteSets, TLC

VARIABLES
    snd,        \* the windowed sender's fields (AtLeastOnce/ExactlyOnce/ExactlyOnceOrdered Sender)
    ctx,        \* what the last sender handler asked of its Context: wire sends and timer operations
    alarms,     \* number of alarms named "rtx" pending in the runtime
    nInputs,    \* number of application MESSAGE inputs given to the sender so far
    acked,      \* history: the assigned sequence numbers whose ACK the sender has processed
    quiet,      \* history: no ACK has arrived and no timer has fired yet
    log,        \* history while quiet: every DATA transmitted and the number of timer arms
    rcv,        \* the receiver's fields
    out,        \* what the last receiver handler asked of its Context: deliveries and wire sends
    arrived,    \* history: the sequence numbers of the DATA that reached the receiver
    count,      \* history: per sequence number, how many times it was delivered to the application
    order,      \* history: the deliveries in order, each with the sequence number it belongs to (ordered receivers)
    trace,      \* history: the events given to a process taken alone, each with what its handler did
    wire        \* the messages in flight between the sender and the receiver

sndVars == <<snd, ctx, alarms, nInputs, acked, quiet, log>>
rcvVars == <<rcv, out, arrived, count, order, trace>>
vars == <<snd, ctx, alarms, nInputs, acked, quiet, log, rcv, out, arrived, count, order, trace, wire>>

(***************************************************************************)
(* Bounds of the model and constants of the program.                       *)
(***************************************************************************)
\* application inputs beyond a full window
MaxExtra == 5
\* ACKs may name sequence numbers this far beyond the last one the bound lets the sender assign
MaxAhead == 1

WindowAtLeastOnce == 10
WindowExactlyOnce == 10
WindowExactlyOnceOrdered == 4
Windows == {WindowAtLeastOnce, WindowExactlyOnce, WindowExactlyOnceOrdered}

TimerName == "rtx"

\* The text of the application's k-th input: three texts in rotation, so that
\* neighbouring inputs differ and equal texts recur under different sequence numbers.
AppText(k) == CASE k % 3 = 1 -> "a" [] k % 3 = 2 -> "b" [] OTHER -> "c"

MaxInputs(w) == w + MaxExtra

EmptyMap == [k \in {} |-> "a"]

Data(seq, text) == [type |-> "DATA", seq |-> seq, text |-> text]
Ack(seq) == [type |-> "ACK", seq |-> seq]
LocalMsg(text) == [type |-> "MESSAGE", text |-> text]

\* sent: wire sends, ops: timer operations, assigned: history of each sequence-number
\* assignment with the base it was made under
NoCtx == [sent |-> <<>>, ops |-> <<>>, assigned |-> <<>>]

\* local: the MESSAGEs handed to the application, sent: wire sends, seqs: history of the
\* sequence number each delivery belongs to
NoOut == [local |-> <<>>, sent |-> <<>>, seqs |-> <<>>]

\* of: the class of the process taken alone ("" where no history of events is kept)
NoTrace == [of |-> "", events |-> <<>>]

(***************************************************************************)
(* The windowed sender.  A handler maps st = [p |-> fields, c |-> context  *)
(* calls so far] to the same after the handler.                            *)
(***************************************************************************)
SenderInit(w) ==
    [next_seq |-> 1, base |-> 1, unacked |-> EmptyMap, pending |-> <<>>,
     pending_idx |-> 0, window |-> w, timer_active |-> FALSE]

\* mutant: the window test off by one
has_window_space_inclusive(p) == p.next_seq <= p.base + p.window

has_window_space(p) == p.next_seq < p.base + p.window

arm_timer(st) ==
    [p |-> [st.p EXCEPT !.timer_active = TRUE],
     c |-> [st.c EXCEPT !.ops = Append(@, "set")]]

\* mutant: the cancel forgotten
disarm_timer_forgotten(st) == st

disarm_timer(st) ==
    IF st.p.timer_active
    THEN [p |-> [st.p EXCEPT !.timer_active = FALSE],
          c |-> [st.c EXCEPT !.ops = Append(@, "cancel")]]
    ELSE st

\* mutant: armed again without cancelling what is pending
restart_timer_stacking(st) == arm_timer(st)

restart_timer(st) == arm_timer(disarm_timer(st))

send_data(st, seq, text) == [st EXCEPT !.c.sent = Append(@, Data(seq, text))]

\* mutant: the timer restarted on every assignment, not only on the first outstanding one
assign_and_send_rearming(st, text) ==
    LET seq == st.p.next_seq
        st1 == [st EXCEPT !.p.next_seq = seq + 1,
                          !.p.unacked = (seq :> text) @@ st.p.unacked,
                          !.c.assigned = Append(@, [seq |-> seq, base |-> st.p.base])]
    IN  restart_timer(send_data(st1, seq, text))

\* seq = next_seq; next_seq += 1; unacked[seq] = text; send; restart the timer if unacked was empty
assign_and_send(st, text) ==
    LET seq == st.p.next_seq
        was_empty == DOMAIN st.p.unacked = {}
        st1 == [st EXCEPT !.p.next_seq = seq + 1,
                          !.p.unacked = (seq :> text) @@ st.p.unacked,
                          !.c.assigned = Append(@, [seq |-> seq, base |-> st.p.base])]
        st2 == send_data(st1, seq, text)
    IN  IF was_empty THEN restart_timer(st2) ELSE st2

\* mutant: the newest waiting text taken, not the one at pending_idx
RECURSIVE drain_pending_newest_first(_)
drain_pending_newest_first(st) ==
    IF st.p.pending_idx < Len(st.p.pending) /\ has_window_space(st.p)
    THEN LET text == st.p.pending[Len(st.p.pending)]
         IN  drain_pending_newest_first(
                 assign_and_send([st EXCEPT !.p.pending_idx = @ + 1], text))
    ELSE st

RECURSIVE drain_pending(_)
drain_pending(st) ==
    IF st.p.pending_idx < Len(st.p.pending) /\ has_window_space(st.p)
    THEN LET text == st.p.pending[st.p.pending_idx + 1]
         IN  drain_pending(assign_and_send([st EXCEPT !.p.pending_idx = @ + 1], text))
    ELSE st

\* mutant: pending sliced whenever something has been read
compact_pending_always(st) ==
    IF st.p.pending_idx > 0
    THEN [st EXCEPT !.p.pending = SubSeq(@, st.p.pending_idx + 1, Len(@)),
                    !.p.pending_idx = 0]
    ELSE st

\* mutant: the slice taken one text early, the last text read kept as unread
compact_pending_early(st) ==
    IF st.p.pending_idx > 0 /\ st.p.pending_idx * 2 >= Len(st.p.pending)
    THEN [st EXCEPT !.p.pending = SubSeq(@, st.p.pending_idx, Len(@)),
                    !.p.pending_idx = 0]
    ELSE st

compact_pending(st) ==
    IF st.p.pending_idx > 0 /\ st.p.pending_idx * 2 >= Len(st.p.pending)
    THEN [st EXCEPT !.p.pending = SubSeq(@, st.p.pending_idx + 1, Len(@)),
                    !.p.pending_idx = 0]
    ELSE st

\* mutant: pending left as it is
try_send_pending_idle(st) == st

try_send_pending(st) == compact_pending(drain_pending(st))

\* mutant: the window not looked at, every input assigned and sent at once
Sender_on_local_message_unbounded(st, msg) ==
    IF msg.type # "MESSAGE" THEN st
    ELSE assign_and_send(st, msg.text)

Sender_on_local_message(st, msg) ==
    IF msg.type # "MESSAGE" THEN st
    ELSE IF has_window_space(st.p)
         THEN assign_and_send(st, msg.text)
         ELSE [st EXCEPT !.p.pending = Append(@, msg.text)]

\* mutant: ACKs assumed to arrive in order, the oldest outstanding number removed
ack_remove_oldest(p, seq) ==
    [p EXCEPT !.unacked = [k \in DOMAIN p.unacked \ {p.base} |-> p.unacked[k]]]

\* mutant: the acknowledged number kept in unacked
ack_remove_ignored(p, seq) == p

\* if seq in unacked: del unacked[seq]
ack_remove(p, seq) ==
    [p EXCEPT !.unacked = [k \in DOMAIN p.unacked \ {seq} |-> p.unacked[k]]]

\* mutant: base moved past numbers still outstanding
slide_base_past_unacked(p) == [p EXCEPT !.base = p.next_seq]

\* mutant: base moved by one step at most
slide_base_once(p) ==
    IF p.base < p.next_seq /\ p.base \notin DOMAIN p.unacked
    THEN [p EXCEPT !.base = @ + 1]
    ELSE p

RECURSIVE slide_base(_)
slide_base(p) ==
    IF p.base < p.next_seq /\ p.base \notin DOMAIN p.unacked
    THEN slide_base([p EXCEPT !.base = @ + 1])
    ELSE p

\* mutant: the timer restarted by every ACK that leaves something outstanding
Sender_on_message_restarting(st, msg) ==
    IF msg.type # "ACK" THEN st
    ELSE LET st2 == [st EXCEPT !.p = slide_base(ack_remove(st.p, msg.seq))]
             st3 == IF DOMAIN st2.p.unacked = {} THEN disarm_timer(st2)
                    ELSE restart_timer(st2)
         IN  try_send_pending(st3)

\* mutant: base left where it is
Sender_on_message_unslid(st, msg) ==
    IF msg.type # "ACK" THEN st
    ELSE LET st2 == [st EXCEPT !.p = ack_remove(st.p, msg.seq)]
             st3 == IF DOMAIN st2.p.unacked = {} THEN disarm_timer(st2) ELSE st2
         IN  try_send_pending(st3)

Sender_on_message(st, msg) ==
    IF msg.type # "ACK" THEN st
    ELSE LET seq == msg.seq
             p1 == ack_remove(st.p, seq)
             p2 == slide_base(p1)
             base_changed == p2.base # p1.base
             st2 == [st EXCEPT !.p = p2]
             st3 == IF DOMAIN p2.unacked = {} THEN disarm_timer(st2)
                    ELSE IF base_changed THEN restart_timer(st2)
                    ELSE st2
         IN  try_send_pending(st3)

\* every outstanding item from seq upwards sent again
RECURSIVE resend_from(_, _)
resend_from(st, seq) ==
    IF seq >= st.p.next_seq THEN st
    ELSE resend_from(IF seq \in DOMAIN st.p.unacked
                     THEN send_data(st, seq, st.p.unacked[seq]) ELSE st, seq + 1)

\* mutant: go-back-N, every outstanding item retransmitted
Sender_on_timer_all(st, timer_name) ==
    IF timer_name # TimerName THEN st
    ELSE LET st1 == [st EXCEPT !.p.timer_active = FALSE]
         IN  IF DOMAIN st1.p.unacked = {} THEN st1
             ELSE arm_timer(resend_from(st1, st1.p.base))

\* mutant: the timer's name not looked at
Sender_on_timer_any_name(st, timer_name) ==
    LET st1 == [st EXCEPT !.p.timer_active = FALSE]
    IN  IF DOMAIN st1.p.unacked = {} THEN st1
        ELSE LET seq == st1.p.base
                 st2 == IF seq \in DOMAIN st1.p.unacked
                        THEN send_data(st1, seq, st1.p.unacked[seq])
                        ELSE st1
             IN  arm_timer(st2)

\* mutant: the oldest outstanding item retransmitted once, the timer not armed again
Sender_on_timer_once(st, timer_name) ==
    IF timer_name # TimerName THEN st
    ELSE LET st1 == [st EXCEPT !.p.timer_active = FALSE]
         IN  IF DOMAIN st1.p.unacked = {} THEN st1
             ELSE LET seq == st1.p.base
                  IN  IF seq \in DOMAIN st1.p.unacked
                      THEN send_data(st1, seq, st1.p.unacked[seq])
                      ELSE st1

Sender_on_timer(st, timer_name) ==
    IF timer_name # TimerName THEN st
    ELSE LET st1 == [st EXCEPT !.p.timer_active = FALSE]
         IN  IF DOMAIN st1.p.unacked = {} THEN st1
             ELSE LET seq == st1.p.base
                      st2 == IF seq \in DOMAIN st1.p.unacked
                             THEN send_data(st1, seq, st1.p.unacked[seq])
                             ELSE st1
                  IN  arm_timer(st2)

(***************************************************************************)
(* The runtime's side of the Context: a set_timer_once adds a pending      *)
(* alarm, a cancel_timer removes what is pending, a fire consumes one.     *)
(***************************************************************************)
RECURSIVE ApplyTimerOps(_, _)
ApplyTimerOps(n, ops) ==
    IF ops = <<>> THEN n
    ELSE ApplyTimerOps(IF Head(ops) = "set" THEN n + 1 ELSE 0, Tail(ops))

CountOf(ops, op) == Cardinality({i \in DOMAIN ops : ops[i] = op})

(***************************************************************************)
(* Specification of the windowed sender alone: the application gives       *)
(* inputs, the channel hands over ACKs of any sequence number in any       *)
(* order and any number of times, the runtime fires a pending alarm.       *)
(***************************************************************************)
Run(st) ==
    /\ snd' = st.p
    /\ ctx' = st.c
    /\ log' = IF quiet'
              THEN [sent |-> log.sent \o st.c.sent,
                    arms |-> log.arms + CountOf(st.c.ops, "set")]
              ELSE [sent |-> <<>>, arms |-> 0]

Start == [p |-> snd, c |-> NoCtx]

\* the receiver side where a specification has none
NoReceiver ==
    /\ rcv = [next_seq |-> 1]
    /\ out = NoOut
    /\ arrived = {}
    /\ count = EmptyMap
    /\ order = <<>>
    /\ trace = NoTrace

SenderStart(w) ==
    /\ snd = SenderInit(w)
    /\ ctx = NoCtx
    /\ alarms = 0
    /\ nInputs = 0
    /\ acked = {}
    /\ quiet = TRUE
    /\ log = [sent |-> <<>>, arms |-> 0]

Init ==
    /\ \E w \in Windows : SenderStart(w)
    /\ NoReceiver
    /\ wire = {}

LocalMessage ==
    /\ nInputs < MaxInputs(snd.window)
    /\ nInputs' = nInputs + 1
    /\ quiet' = quiet
    /\ LET st == Sender_on_local_message(Start, LocalMsg(AppText(nInputs + 1)))
       IN  Run(st) /\ alarms' = ApplyTimerOps(alarms, st.c.ops)
    /\ UNCHANGED <<acked, rcvVars, wire>>

\* the sequence numbers an ACK may carry
AckSeqs == 1..(MaxInputs(snd.window) + MaxAhead)

AckArrivesOf(seq) ==
    /\ quiet' = FALSE
    /\ acked' = IF seq < snd.next_seq THEN acked \cup {seq} ELSE acked
    /\ LET st == Sender_on_message(Start, Ack(seq))
       IN  Run(st) /\ alarms' = ApplyTimerOps(alarms, st.c.ops)
    /\ UNCHANGED <<nInputs, rcvVars, wire>>

AckArrives == \E seq \in AckSeqs : AckArrivesOf(seq)

TimerFires ==
    /\ alarms > 0
    /\ quiet' = FALSE
    /\ LET st == Sender_on_timer(Start, TimerName)
       IN  Run(st) /\ alarms' = ApplyTimerOps(alarms - 1, st.c.ops)
    /\ UNCHANGED <<nInputs, acked, rcvVars, wire>>

Next == LocalMessage \/ AckArrives \/ TimerFires

Spec == Init /\ [][Next]_vars

(***************************************************************************)
(* Claims about the windowed sender.                                       *)
(***************************************************************************)
\* C1: for every windowed sender (window 10 or 4), under any interleaving of
\* application inputs, ACKs of any sequence number and timer fires,
\* next_seq - base never exceeds the window, and every sequence number the last
\* handler assigned was assigned while next_seq < base + window.
C1_WindowInvariant ==
    /\ snd.window \in Windows
    /\ snd.next_seq - snd.base <= snd.window
    /\ \A i \in DOMAIN ctx.assigned :
           ctx.assigned[i].seq < ctx.assigned[i].base + snd.window

\* an ACK freed slots of a full window of 10 and the handler refilled it from pending
C1_Witness ==
    /\ snd.window = WindowAtLeastOnce
    /\ snd.base > 1
    /\ snd.next_seq - snd.base = snd.window
    /\ Len(ctx.assigned) > 0
    /\ snd.pending_idx < Len(snd.pending)


\* C7: after every handler of the windowed sender the retransmission timer is armed
\* (the sender's flag is set and the runtime holds a pending alarm) if and only if
\* unacked is non-empty.
C7_TimerArmedIffUnacked ==
    /\ snd.timer_active = (DOMAIN snd.unacked # {})
    /\ (alarms > 0) = (DOMAIN snd.unacked # {})

\* an ACK emptied unacked (cancel), then the same handler drained pending (set):
\* every outstanding number was assigned by this handler
C7_Witness ==
    /\ ctx.ops = <<"cancel", "set">>
    /\ Len(ctx.assigned) > 0
    /\ ctx.assigned[1].seq = snd.base
    /\ snd.timer_active

\* C8: the keys of unacked are exactly the sequence numbers s with
\* base <= s < next_seq whose ACK{s} the sender has not yet processed; no key lies
\* outside [base, next_seq).
C8_UnackedKeys ==
    /\ DOMAIN snd.unacked = {s \in snd.base..(snd.next_seq - 1) : s \notin acked}
    /\ \A s \in DOMAIN snd.unacked : snd.base <= s /\ s < snd.next_seq

\* ACKs arrived out of order: a number above base is acknowledged, base and a later one are not
C8_Witness ==
    \E s \in acked : /\ snd.base < s
                      /\ snd.base \in DOMAIN snd.unacked
                      /\ \E t \in DOMAIN snd.unacked : t > s

Min(a, b) == IF a < b THEN a ELSE b

\* C9: when n inputs arrive back to back, no ACK and no timer fire in between, exactly
\* min(n, window) DATA are transmitted, with seq 1..min(n, window) and the inputs' texts
\* in input order, the other max(0, n - window) texts are in pending in input order,
\* and the timer was armed exactly once, by the first input.
C9_Burst ==
    quiet =>
        LET k == Min(nInputs, snd.window)
        IN  /\ log.sent = [i \in 1..k |-> Data(i, AppText(i))]
            /\ snd.pending_idx = 0
            /\ snd.pending = [j \in 1..(nInputs - k) |-> AppText(k + j)]
            /\ log.arms = IF nInputs > 0 THEN 1 ELSE 0
            /\ (nInputs > 1 => ctx.ops = <<>>)

\* window 10, 15 inputs: 10 transmitted, 5 queued
C9_Witness ==
    /\ quiet
    /\ snd.window = WindowExactlyOnce
    /\ nInputs = 15
    /\ Len(log.sent) = 10
    /\ Len(snd.pending) = 5


(***************************************************************************)
(* ExactlyOnceReceiver: a growable circular bitmap seen[0..win-1], offset  *)
(* d from head standing for sequence number next_seq + d.                  *)
(***************************************************************************)
InitialWin == 32
WinCeiling == 1024

\* DATA reach the receiver with the sequence numbers 1..MaxNear and, far ahead,
\* InitialWin..InitialWin+MaxFar-1
MaxNear == 5
MaxFar == 3
ArrivalSeqs == (1..MaxNear) \cup (InitialWin..(InitialWin + MaxFar - 1))

ExactlyOnceReceiverInit ==
    [next_seq |-> 1, win |-> InitialWin, head |-> 0,
     seen |-> [i \in 0..(InitialWin - 1) |-> 0]]

advance(r) ==
    LET head == (r.head + 1) % r.win
        tail == (head + r.win - 1) % r.win
    IN  [r EXCEPT !.head = head, !.next_seq = r.next_seq + 1, !.seen[tail] = 0]

\* mutant: doubling not stopped at the ceiling
RECURSIVE grow_win_unbounded(_, _)
grow_win_unbounded(offset, new_win) ==
    IF offset >= new_win THEN grow_win_unbounded(offset, new_win * 2) ELSE new_win

\* mutant: the capacity never doubled
grow_win_stalled(offset, new_win) == new_win

RECURSIVE grow_win(_, _)
grow_win(offset, new_win) ==
    IF offset >= new_win /\ new_win < WinCeiling
    THEN grow_win(offset, new_win * 2)
    ELSE new_win

\* mutant: a fresh bitmap, no flag carried over
ensure_window_emptied(r, offset) ==
    IF offset < r.win THEN r
    ELSE LET doubled == grow_win(offset, r.win)
             new_win == IF offset >= doubled THEN offset + 1 ELSE doubled
         IN  [r EXCEPT !.win = new_win, !.seen = [d \in 0..(new_win - 1) |-> 0], !.head = 0]

\* mutant: the bits copied from physical index 0, not from head
ensure_window_unrotated(r, offset) ==
    IF offset < r.win THEN r
    ELSE LET doubled == grow_win(offset, r.win)
             new_win == IF offset >= doubled THEN offset + 1 ELSE doubled
         IN  [r EXCEPT !.win = new_win,
                       !.seen = [d \in 0..(new_win - 1) |->
                                    IF d < r.win THEN r.seen[d] ELSE 0],
                       !.head = 0]

ensure_window(r, offset) ==
    IF offset < r.win THEN r
    ELSE LET doubled == grow_win(offset, r.win)
             new_win == IF offset >= doubled THEN offset + 1 ELSE doubled
             copied == IF r.win < new_win THEN r.win ELSE new_win
         IN  [r EXCEPT !.win = new_win,
                       !.seen = [d \in 0..(new_win - 1) |->
                                    IF d < copied THEN r.seen[(r.head + d) % r.win] ELSE 0],
                       !.head = 0]

\* mutant: one marked number consumed at most
advance_over_seen_once(r) ==
    IF r.seen[r.head] = 1 THEN advance([r EXCEPT !.seen[r.head] = 0]) ELSE r

\* while seen[head] == 1: seen[head] = 0; advance()
RECURSIVE advance_over_seen(_)
advance_over_seen(r) ==
    IF r.seen[r.head] = 1
    THEN advance_over_seen(advance([r EXCEPT !.seen[r.head] = 0]))
    ELSE r

deliver(st, seq, text) ==
    [st EXCEPT !.c.local = Append(@, LocalMsg(text)), !.c.seqs = Append(@, seq)]

send_ack(st, seq) == [st EXCEPT !.c.sent = Append(@, Ack(seq))]

\* mutant: an arrival whose bit is already set dropped without an ACK
ExactlyOnceReceiver_on_message_quiet(st, msg) ==
    IF msg.type # "DATA" THEN st
    ELSE LET seq == msg.seq
             text == msg.text
         IN  IF seq < st.p.next_seq THEN send_ack(st, seq)
             ELSE LET offset == seq - st.p.next_seq
                      r == ensure_window(st.p, offset)
                      idx == (r.head + offset) % r.win
                      st1 == [st EXCEPT !.p = r]
                  IN  IF offset = 0
                      THEN send_ack([deliver(st1, seq, text) EXCEPT
                                        !.p = advance_over_seen(advance(r))], seq)
                      ELSE IF r.seen[idx] = 0
                           THEN send_ack([deliver(st1, seq, text) EXCEPT !.p.seen[idx] = 1],
                                         seq)
                           ELSE st1

ExactlyOnceReceiver_on_message(st, msg) ==
    IF msg.type # "DATA" THEN st
    ELSE LET seq == msg.seq
             text == msg.text
         IN  IF seq < st.p.next_seq THEN send_ack(st, seq)
             ELSE LET offset == seq - st.p.next_seq
                      r == ensure_window(st.p, offset)
                      idx == (r.head + offset) % r.win
                      st1 == [st EXCEPT !.p = r]
                      st2 == IF offset = 0
                             THEN [deliver(st1, seq, text) EXCEPT
                                      !.p = advance_over_seen(advance(r))]
                             ELSE IF r.seen[idx] = 0
                                  THEN [deliver(st1, seq, text) EXCEPT !.p.seen[idx] = 1]
                                  ELSE st1
                  IN  send_ack(st2, seq)

(***************************************************************************)
(* Specification of a receiver alone: the channel hands over the DATA of   *)
(* one sender, each any number of times and in any order.                  *)
(***************************************************************************)
\* the sender side where a specification has none
NoSender ==
    /\ snd = [next_seq |-> 1]
    /\ ctx = NoCtx
    /\ alarms = 0
    /\ nInputs = 0
    /\ acked = {}
    /\ quiet = TRUE
    /\ log = [sent |-> <<>>, arms |-> 0]

RECURSIVE CountDeliveries(_, _)
CountDeliveries(c, seqs) ==
    IF seqs = <<>> THEN c
    ELSE LET s == Head(seqs)
         IN  CountDeliveries([c EXCEPT ![s] = @ + 1], Tail(seqs))

ReceiverStart == [p |-> rcv, c |-> NoOut]

\* the deliveries of a handler, each text with the sequence number it belongs to
Deliveries(c) == [i \in DOMAIN c.local |-> [seq |-> c.seqs[i], text |-> c.local[i].text]]

Received(st, seq) ==
    /\ rcv' = st.p
    /\ out' = st.c
    /\ arrived' = arrived \cup {seq}
    /\ count' = CountDeliveries(count, st.c.seqs)

InitEO ==
    /\ NoSender
    /\ rcv = ExactlyOnceReceiverInit
    /\ out = NoOut
    /\ arrived = {}
    /\ count = [s \in ArrivalSeqs |-> 0]
    /\ order = <<>>
    /\ trace = NoTrace
    /\ wire = {}

DataArrivesEO ==
    \E seq \in ArrivalSeqs :
        /\ Received(ExactlyOnceReceiver_on_message(ReceiverStart, Data(seq, AppText(seq))), seq)
        /\ UNCHANGED <<order, trace, sndVars, wire>>

NextEO == DataArrivesEO

SpecEO == InitEO /\ [][NextEO]_vars

\* C2: for every sequence of DATA arrivals of one sender, duplicated and reordered at
\* will, each sequence number that has arrived at least once has been delivered to the
\* application exactly once (with its own text), and none that has not arrived has been
\* delivered.
C2_ExactlyOnce ==
    /\ \A s \in ArrivalSeqs : count[s] = IF s \in arrived THEN 1 ELSE 0
    /\ \A i \in DOMAIN out.local : out.local[i] = LocalMsg(AppText(out.seqs[i]))

\* the bitmap has grown with head moved off 0 before, numbers ahead of next_seq are
\* marked, and the last arrival was a duplicate whose delivery was suppressed
C2_Witness ==
    /\ rcv.win > InitialWin
    /\ rcv.next_seq > 2
    /\ \E d \in 1..(rcv.win - 1) : rcv.seen[(rcv.head + d) % rcv.win] = 1
    /\ out.local = <<>>
    /\ out.sent # <<>>
    /\ out.sent[1].seq > rcv.next_seq


(***************************************************************************)
(* ExactlyOnceOrderedReceiver: arrivals ahead of next_seq wait in buffer   *)
(* and are flushed in sequence.                                            *)
(***************************************************************************)
\* DATA reach the ordered receiver with the sequence numbers 1..MaxSeq
MaxSeq == 7

ExactlyOnceOrderedReceiverInit == [next_seq |-> 1, buffer |-> EmptyMap]

Without(f, k) == [j \in DOMAIN f \ {k} |-> f[j]]

\* mutant: one buffered entry delivered, the rest of the contiguous run left behind
ExactlyOnceOrderedReceiver_flush_once(st) ==
    IF st.p.next_seq \in DOMAIN st.p.buffer
    THEN LET seq == st.p.next_seq
         IN  [deliver(st, seq, st.p.buffer[seq]) EXCEPT
                 !.p.buffer = Without(st.p.buffer, seq), !.p.next_seq = seq + 1]
    ELSE st

RECURSIVE ExactlyOnceOrderedReceiver_flush(_)
ExactlyOnceOrderedReceiver_flush(st) ==
    IF st.p.next_seq \in DOMAIN st.p.buffer
    THEN LET seq == st.p.next_seq
             text == st.p.buffer[seq]
         IN  ExactlyOnceOrderedReceiver_flush(
                 [deliver(st, seq, text) EXCEPT
                     !.p.buffer = Without(st.p.buffer, seq), !.p.next_seq = seq + 1])
    ELSE st

\* mutant: a duplicate (seq below next_seq) dropped without an ACK
ExactlyOnceOrderedReceiver_on_message_mute(st, msg) ==
    IF msg.type # "DATA" THEN st
    ELSE LET seq == msg.seq
             text == msg.text
         IN  IF seq < st.p.next_seq THEN st
             ELSE LET st1 == IF seq = st.p.next_seq
                             THEN ExactlyOnceOrderedReceiver_flush(
                                      [deliver(st, seq, text) EXCEPT !.p.next_seq = @ + 1])
                             ELSE IF seq \notin DOMAIN st.p.buffer
                                  THEN [st EXCEPT !.p.buffer = (seq :> text) @@ @]
                                  ELSE st
                  IN  send_ack(st1, seq)

ExactlyOnceOrderedReceiver_on_message(st, msg) ==
    IF msg.type # "DATA" THEN st
    ELSE LET seq == msg.seq
             text == msg.text
         IN  IF seq < st.p.next_seq THEN send_ack(st, seq)
             ELSE LET st1 == IF seq = st.p.next_seq
                             THEN ExactlyOnceOrderedReceiver_flush(
                                      [deliver(st, seq, text) EXCEPT !.p.next_seq = @ + 1])
                             ELSE IF seq \notin DOMAIN st.p.buffer
                                  THEN [st EXCEPT !.p.buffer = (seq :> text) @@ @]
                                  ELSE st
                  IN  send_ack(st1, seq)

InitEOO ==
    /\ NoSender
    /\ rcv = ExactlyOnceOrderedReceiverInit
    /\ out = NoOut
    /\ arrived = {}
    /\ count = [s \in 1..MaxSeq |-> 0]
    /\ order = <<>>
    /\ trace = NoTrace
    /\ wire = {}

DataArrivesEOO ==
    \E seq \in 1..MaxSeq :
        /\ Received(ExactlyOnceOrderedReceiver_on_message(
                        ReceiverStart, Data(seq, AppText(seq))), seq)
        /\ order' = order \o Deliveries(out')
        /\ UNCHANGED <<trace, sndVars, wire>>

NextEOO == DataArrivesEOO

SpecEOO == InitEOO /\ [][NextEOO]_vars

\* C3: whatever the duplication and reordering of the arrivals, the ordered receiver
\* has delivered exactly the sequence numbers 1..next_seq-1, each once, in increasing
\* order and each with its own text; and once every one of 1..N has arrived, all of
\* 1..N have been delivered.
C3_OrderedExactlyOnce ==
    /\ order = [i \in 1..(rcv.next_seq - 1) |-> [seq |-> i, text |-> AppText(i)]]
    /\ \A s \in 1..MaxSeq : count[s] = IF s < rcv.next_seq THEN 1 ELSE 0
    /\ \A N \in 1..MaxSeq : (1..N \subseteq arrived) => rcv.next_seq > N

\* the arrival of next_seq released a buffered run, while a later number still waits
\* behind a gap
C3_Witness ==
    /\ Len(out.local) >= 3
    /\ DOMAIN rcv.buffer # {}
    /\ rcv.next_seq \notin arrived


(***************************************************************************)
(* AtMostOnceSender and AtMostOnceReceiver.                                *)
(***************************************************************************)
MaxBuffer == 12
\* application inputs beyond the receiver's buffer cap
MaxOver == 3

AtMostOnceSenderInit == [next_seq |-> 1]

\* mutant: the sequence number not advanced
AtMostOnceSender_on_local_message_reusing(st, msg) ==
    IF msg.type # "MESSAGE" THEN st
    ELSE send_data(st, st.p.next_seq, msg.text)

AtMostOnceSender_on_local_message(st, msg) ==
    IF msg.type # "MESSAGE" THEN st
    ELSE LET seq == st.p.next_seq
         IN  send_data([st EXCEPT !.p.next_seq = seq + 1], seq, msg.text)

AtMostOnceReceiverInit == [next_seq |-> 1, buffer |-> EmptyMap, max_buffer |-> MaxBuffer]

RECURSIVE AtMostOnceReceiver_flush(_)
AtMostOnceReceiver_flush(st) ==
    IF st.p.next_seq \in DOMAIN st.p.buffer
    THEN LET seq == st.p.next_seq
             text == st.p.buffer[seq]
         IN  AtMostOnceReceiver_flush(
                 [deliver(st, seq, text) EXCEPT
                     !.p.buffer = Without(st.p.buffer, seq), !.p.next_seq = seq + 1])
    ELSE st

MinOf(S) == CHOOSE x \in S : \A y \in S : x <= y

\* mutant: next_seq moved to the smallest buffered key, the buffer not flushed
skip_ahead_unflushed(st) ==
    IF DOMAIN st.p.buffer = {} THEN st
    ELSE LET new_next == MinOf(DOMAIN st.p.buffer)
         IN  IF new_next <= st.p.next_seq THEN st
             ELSE [st EXCEPT !.p.next_seq = new_next]

skip_ahead(st) ==
    IF DOMAIN st.p.buffer = {} THEN st
    ELSE LET new_next == MinOf(DOMAIN st.p.buffer)
         IN  IF new_next <= st.p.next_seq THEN st
             ELSE AtMostOnceReceiver_flush([st EXCEPT !.p.next_seq = new_next])

\* mutant: the size of the buffer never looked at
AtMostOnceReceiver_on_message_uncapped(st, msg) ==
    IF msg.type # "DATA" THEN st
    ELSE LET seq == msg.seq
             text == msg.text
         IN  IF seq < st.p.next_seq THEN st
             ELSE IF seq = st.p.next_seq
                  THEN AtMostOnceReceiver_flush(
                           [deliver(st, seq, text) EXCEPT !.p.next_seq = @ + 1])
                  ELSE IF seq \notin DOMAIN st.p.buffer
                       THEN [st EXCEPT !.p.buffer = (seq :> text) @@ @]
                       ELSE st

\* mutant: a late arrival (seq below next_seq) delivered instead of discarded
AtMostOnceReceiver_on_message_late(st, msg) ==
    IF msg.type # "DATA" THEN st
    ELSE LET seq == msg.seq
             text == msg.text
             st1 == IF seq <= st.p.next_seq
                    THEN AtMostOnceReceiver_flush(
                             [deliver(st, seq, text) EXCEPT !.p.next_seq = @ + 1])
                    ELSE IF seq \notin DOMAIN st.p.buffer
                         THEN [st EXCEPT !.p.buffer = (seq :> text) @@ @]
                         ELSE st
         IN  IF Cardinality(DOMAIN st1.p.buffer) > st1.p.max_buffer
             THEN skip_ahead(st1) ELSE st1

AtMostOnceReceiver_on_message(st, msg) ==
    IF msg.type # "DATA" THEN st
    ELSE LET seq == msg.seq
             text == msg.text
         IN  IF seq < st.p.next_seq THEN st
             ELSE LET st1 == IF seq = st.p.next_seq
                             THEN AtMostOnceReceiver_flush(
                                      [deliver(st, seq, text) EXCEPT !.p.next_seq = @ + 1])
                             ELSE IF seq \notin DOMAIN st.p.buffer
                                  THEN [st EXCEPT !.p.buffer = (seq :> text) @@ @]
                                  ELSE st
                  IN  IF Cardinality(DOMAIN st1.p.buffer) > st1.p.max_buffer
                      THEN skip_ahead(st1) ELSE st1

(***************************************************************************)
(* Specification of the at-most-once pair.  The sender transmits each      *)
(* input once; the channel delays, reorders, duplicates and drops: a DATA  *)
(* once sent may reach the receiver at any later time, any number of       *)
(* times, or never.                                                        *)
(***************************************************************************)
MaxInputsAMO == MaxBuffer + MaxOver

InitAMO ==
    /\ snd = AtMostOnceSenderInit
    /\ ctx = NoCtx
    /\ alarms = 0
    /\ nInputs = 0
    /\ acked = {}
    /\ quiet = TRUE
    /\ log = [sent |-> <<>>, arms |-> 0]
    /\ rcv = AtMostOnceReceiverInit
    /\ out = NoOut
    /\ arrived = {}
    /\ count = [s \in 1..MaxInputsAMO |-> 0]
    /\ order = <<>>
    /\ trace = NoTrace
    /\ wire = {}

LocalMessageAMO ==
    /\ nInputs < MaxInputsAMO
    /\ nInputs' = nInputs + 1
    /\ LET st == AtMostOnceSender_on_local_message(Start, LocalMsg(AppText(nInputs + 1)))
       IN  /\ snd' = st.p
           /\ ctx' = st.c
           /\ wire' = wire \cup {st.c.sent[i] : i \in DOMAIN st.c.sent}
    /\ UNCHANGED <<alarms, acked, quiet, log, rcvVars>>

DataArrivesAMO ==
    \E m \in wire :
        /\ Received(AtMostOnceReceiver_on_message(ReceiverStart, m), m.seq)
        /\ order' = order \o Deliveries(out')
        /\ UNCHANGED <<trace, sndVars, wire>>

NextAMO == LocalMessageAMO \/ DataArrivesAMO

SpecAMO == InitAMO /\ [][NextAMO]_vars

StrictlyIncreasing(q) == \A i \in 1..(Len(q) - 1) : q[i].seq < q[i + 1].seq

\* C4: over a channel that drops, duplicates and reorders, what the at-most-once
\* receiver has delivered are texts of inputs, each under its own sequence number, in
\* increasing sequence-number order, none more than once; every delivered number is
\* below next_seq, and no handler delivers a number that was below next_seq before it
\* (so a late arrival, or a number abandoned by a skip-ahead, is never delivered).
C4_AtMostOnce ==
    /\ [](/\ StrictlyIncreasing(order)
          /\ \A i \in DOMAIN order : /\ order[i].seq \in 1..nInputs
                                       /\ order[i].text = AppText(order[i].seq)
                                       /\ order[i].seq < rcv.next_seq
          /\ \A s \in DOMAIN count : count[s] <= 1)
    /\ [][DataArrivesAMO => \A i \in DOMAIN out'.seqs : out'.seqs[i] >= rcv.next_seq]_vars

\* a skip-ahead abandoned sequence number 1, and a later arrival of 1 was discarded
C4_Witness ==
    /\ order # <<>>
    /\ order[1].seq > 1
    /\ 1 \in arrived
    /\ count[1] = 0


(***************************************************************************)
(* Specification of the wide-gap scenario of the exactly-once receiver:    *)
(* DATA{GapSeq} arrives first, then each of 1..GapSeq-1 arrives once.  The *)
(* next arrival is the lowest, the second lowest or the highest sequence   *)
(* number that has not arrived yet, so runs arrive in order, out of order  *)
(* from below and downwards from the top, in every interleaving.           *)
(***************************************************************************)
GapSeq == 100

MaxOf(S) == CHOOSE x \in S : \A y \in S : x >= y

NextArrivals(S) ==
    IF S = {} THEN {}
    ELSE {MinOf(S), MaxOf(S)} \cup (IF S = {MinOf(S)} THEN {} ELSE {MinOf(S \ {MinOf(S)})})

InitGap ==
    /\ NoSender
    /\ rcv = ExactlyOnceReceiverInit
    /\ out = NoOut
    /\ arrived = {}
    /\ count = [s \in 1..GapSeq |-> 0]
    /\ order = <<>>
    /\ trace = NoTrace
    /\ wire = {}

\* the handler's result with the deliveries counted and the Context calls not kept
ReceivedCounted(st, seq) ==
    /\ rcv' = st.p
    /\ arrived' = arrived \cup {seq}
    /\ count' = CountDeliveries(count, st.c.seqs)
    /\ UNCHANGED out

GapArrives ==
    /\ arrived = {}
    /\ ReceivedCounted(ExactlyOnceReceiver_on_message(
                           ReceiverStart, Data(GapSeq, AppText(GapSeq))), GapSeq)
    /\ UNCHANGED <<order, trace, sndVars, wire>>

RestArrives ==
    /\ arrived # {}
    /\ \E seq \in NextArrivals((1..GapSeq) \ arrived) :
           ReceivedCounted(ExactlyOnceReceiver_on_message(
                               ReceiverStart, Data(seq, AppText(seq))), seq)
    /\ UNCHANGED <<order, trace, sndVars, wire>>

NextGap == GapArrives \/ RestArrives

SpecGap == InitGap /\ [][NextGap]_vars

\* C10: from win = 32, once DATA{GapSeq} has arrived ahead of all of 1..GapSeq-1 the
\* bitmap holds at least GapSeq+1 flags and GapSeq has been delivered once; while the
\* others arrive, once each, every arrived number has been delivered exactly once and
\* no other; and when all have arrived next_seq is GapSeq+1.
C10_WideGap ==
    /\ arrived = {} => rcv.win = InitialWin
    /\ arrived # {} => /\ GapSeq \in arrived
                       /\ rcv.win >= GapSeq + 1
    /\ \A s \in 1..GapSeq : count[s] = IF s \in arrived THEN 1 ELSE 0
    /\ arrived = 1..GapSeq => rcv.next_seq = GapSeq + 1

\* all of 1..GapSeq have arrived and the grown bitmap is empty again
C10_Witness ==
    /\ arrived = 1..GapSeq
    /\ rcv.next_seq = GapSeq + 1
    /\ rcv.win > InitialWin
    /\ \A i \in 0..(rcv.win - 1) : rcv.seen[i] = 0


(***************************************************************************)
(* AtLeastOnceReceiver.                                                    *)
(***************************************************************************)
AtLeastOnceReceiverInit == [id |-> "receiver"]

\* mutant: the DATA acknowledged, its text not delivered
AtLeastOnceReceiver_on_message_undelivered(st, msg) ==
    IF msg.type # "DATA" THEN st
    ELSE send_ack(st, msg.seq)

AtLeastOnceReceiver_on_message(st, msg) ==
    IF msg.type # "DATA" THEN st
    ELSE send_ack(deliver(st, msg.seq, msg.text), msg.seq)

(***************************************************************************)
(* A sender and a receiver joined by the channel.  wire holds the messages *)
(* in flight, at most MaxInFlight of them: a message sent into a full      *)
(* channel is lost or takes the place of one in flight, which is lost; a   *)
(* message in flight may be dropped, may be handed over and stay in flight *)
(* (duplication), or be handed over and leave; any message in flight may   *)
(* be the next one handed over (reordering, delay).                        *)
(***************************************************************************)
MaxInFlight == 2
\* application inputs given to the at-least-once sender joined to its receiver
MaxPairInputs == 3
\* a delivery count stops growing here
MaxCount == 2

\* the channels that may result from sending msgs, in order, into channel w
RECURSIVE Puts(_, _)
Puts(w, msgs) ==
    IF msgs = <<>> THEN {w}
    ELSE LET m == Head(msgs)
             after == IF m \in w THEN {w}
                      ELSE IF Cardinality(w) < MaxInFlight THEN {w \cup {m}}
                      ELSE {w} \cup {(w \ {x}) \cup {m} : x \in w}
         IN  UNION {Puts(v, Tail(msgs)) : v \in after}

PairData(n) == {Data(s, AppText(s)) : s \in 1..n}
PairAcks(n) == {Ack(s) : s \in 1..n}

RECURSIVE CountCapped(_, _)
CountCapped(c, seqs) ==
    IF seqs = <<>> THEN c
    ELSE LET s == Head(seqs)
         IN  CountCapped([c EXCEPT ![s] = IF @ < MaxCount THEN @ + 1 ELSE @], Tail(seqs))

\* the result st of a sender handler: its fields, the runtime's alarm, the channel
PairSender(st, fired, w) ==
    /\ snd' = st.p
    /\ alarms' = ApplyTimerOps(alarms - fired, st.c.ops)
    /\ wire' \in Puts(w, st.c.sent)
    /\ UNCHANGED <<ctx, acked, quiet, log>>

PairLocalMessage(n) ==
    /\ nInputs < n
    /\ nInputs' = nInputs + 1
    /\ \E st \in {Sender_on_local_message(Start, LocalMsg(AppText(nInputs + 1)))} :
           PairSender(st, 0, wire)
    /\ UNCHANGED rcvVars

PairTimerFires ==
    /\ alarms > 0
    /\ \E st \in {Sender_on_timer(Start, TimerName)} : PairSender(st, 1, wire)
    /\ UNCHANGED <<nInputs, rcvVars>>

\* ACK m reaches the sender and leaves the channel (keep = FALSE) or stays in flight
PairAckArrives(m, keep) ==
    /\ m \in wire
    /\ m.type = "ACK"
    /\ \E st \in {Sender_on_message(Start, m)} :
           PairSender(st, 0, IF keep THEN wire ELSE wire \ {m})
    /\ UNCHANGED <<nInputs, rcvVars>>

PairDrop ==
    \E m \in wire :
        /\ wire' = wire \ {m}
        /\ UNCHANGED <<sndVars, rcvVars>>

\* the ACK of the oldest outstanding sequence number, the one whose DATA the sender
\* keeps sending, reaches the sender
BaseAckArrives == \E keep \in BOOLEAN : PairAckArrives(Ack(snd.base), keep)

InitALO ==
    /\ SenderStart(WindowAtLeastOnce)
    /\ rcv = AtLeastOnceReceiverInit
    /\ out = NoOut
    /\ arrived = {}
    /\ count = [s \in 1..MaxPairInputs |-> 0]
    /\ order = <<>>
    /\ trace = NoTrace
    /\ wire = {}

\* DATA m reaches the at-least-once receiver
DataArrivesALO(m, keep) ==
    /\ m \in wire
    /\ m.type = "DATA"
    /\ \E st \in {AtLeastOnceReceiver_on_message(ReceiverStart, m)} :
           /\ rcv' = st.p
           /\ count' = CountCapped(count, st.c.seqs)
           /\ wire' \in Puts(IF keep THEN wire ELSE wire \ {m}, st.c.sent)
    /\ UNCHANGED <<sndVars, out, arrived, order, trace>>

BaseDataArrivesALO ==
    \E m \in wire, keep \in BOOLEAN : m.seq = snd.base /\ DataArrivesALO(m, keep)

NextALO ==
    \/ PairLocalMessage(MaxPairInputs)
    \/ PairTimerFires
    \/ \E m \in PairAcks(MaxPairInputs), keep \in BOOLEAN : PairAckArrives(m, keep)
    \/ \E m \in PairData(MaxPairInputs), keep \in BOOLEAN : DataArrivesALO(m, keep)
    \/ PairDrop

\* The runtime fires a pending alarm.  The channel is fair to what keeps being sent,
\* the DATA of the oldest outstanding sequence number and its ACK: if one is in flight
\* again and again, it is eventually handed over.
FairALO ==
    /\ WF_vars(PairTimerFires)
    /\ SF_vars(BaseDataArrivesALO)
    /\ SF_vars(BaseAckArrives)

SpecALO == InitALO /\ [][NextALO]_vars /\ FairALO

(***************************************************************************)
(* Specification of the exactly-once-ordered pair over the same channel.   *)
(***************************************************************************)
\* application inputs beyond a full window given to the ordered sender
MaxPairExtra == 1
MaxOrderedInputs == WindowExactlyOnceOrdered + MaxPairExtra

InitOrdered ==
    /\ SenderStart(WindowExactlyOnceOrdered)
    /\ rcv = ExactlyOnceOrderedReceiverInit
    /\ out = NoOut
    /\ arrived = {}
    /\ count = [s \in 1..MaxOrderedInputs |-> 0]
    /\ order = <<>>
    /\ trace = NoTrace
    /\ wire = {}

\* DATA m reaches the ordered receiver
DataArrivesOrdered(m, keep) ==
    /\ m \in wire
    /\ m.type = "DATA"
    /\ \E st \in {ExactlyOnceOrderedReceiver_on_message(ReceiverStart, m)} :
           /\ rcv' = st.p
           /\ count' = CountCapped(count, st.c.seqs)
           /\ order' = order \o Deliveries(st.c)
           /\ wire' \in Puts(IF keep THEN wire ELSE wire \ {m}, st.c.sent)
    /\ UNCHANGED <<sndVars, out, arrived, trace>>

BaseDataArrivesOrdered ==
    \E m \in wire, keep \in BOOLEAN : m.seq = snd.base /\ DataArrivesOrdered(m, keep)

NextOrdered ==
    \/ PairLocalMessage(MaxOrderedInputs)
    \/ PairTimerFires
    \/ \E m \in PairAcks(MaxOrderedInputs), keep \in BOOLEAN : PairAckArrives(m, keep)
    \/ \E m \in PairData(MaxOrderedInputs), keep \in BOOLEAN : DataArrivesOrdered(m, keep)
    \/ PairDrop

FairOrdered ==
    /\ WF_vars(PairTimerFires)
    /\ SF_vars(BaseDataArrivesOrdered)
    /\ SF_vars(BaseAckArrives)

SpecOrdered == InitOrdered /\ [][NextOrdered]_vars /\ FairOrdered

\* C5: over a fair channel and with the timer firing while armed, every application
\* input given to the at-least-once sender is eventually delivered to the receiver's
\* application at least once.
C5_AtLeastOnce ==
    \A k \in 1..MaxPairInputs : (nInputs >= k) ~> (count[k] >= 1)

\* every input has been delivered, one of them twice, and the sender is at rest
C5_Witness ==
    /\ nInputs = MaxPairInputs
    /\ \A k \in 1..MaxPairInputs : count[k] >= 1
    /\ \E k \in 1..MaxPairInputs : count[k] = 2
    /\ DOMAIN snd.unacked = {}
    /\ snd.base = MaxPairInputs + 1


\* C6: over a channel that drops, duplicates, delays and reorders but is fair, what the
\* ordered receiver has delivered is at every moment a prefix of the application's
\* inputs in input order (so no input is delivered twice or out of order), and again
\* and again everything given to the sender so far has been delivered: what is
\* delivered only grows, so every input is eventually delivered, exactly once.
C6_OrderedPair ==
    /\ [](/\ Len(order) <= nInputs
          /\ \A i \in DOMAIN order : order[i] = [seq |-> i, text |-> AppText(i)]
          /\ \A k \in DOMAIN count : count[k] = IF k <= Len(order) THEN 1 ELSE 0)
    /\ []<>(Len(order) = nInputs)

\* all inputs, one more than the window holds, are delivered and acknowledged and the
\* sender is at rest, while a duplicate DATA is still in flight
C6_Witness ==
    /\ nInputs = MaxOrderedInputs
    /\ Len(order) = MaxOrderedInputs
    /\ DOMAIN snd.unacked = {}
    /\ snd.base = MaxOrderedInputs + 1
    /\ alarms = 0
    /\ \E m \in wire : m.type = "DATA"


(***************************************************************************)
(* Every process taken alone and given events of every kind, recognized or *)
(* not, at each of its three entry points.  trace keeps each event with    *)
(* the process's fields before and after its handler and the handler's     *)
(* Context calls.                                                          *)
(***************************************************************************)
\* events given to the process
MaxTrace == 4
\* the ACK given to the process carry the sequence numbers 1..MaxTraceSeq
MaxTraceSeq == 3

\* the handlers whose body is pass
AtMostOnceSender_on_message(st, msg) == st
AtMostOnceSender_on_timer(st, timer_name) == st
AtMostOnceReceiver_on_local_message(st, msg) == st
AtMostOnceReceiver_on_timer(st, timer_name) == st
AtLeastOnceReceiver_on_local_message(st, msg) == st
AtLeastOnceReceiver_on_timer(st, timer_name) == st
ExactlyOnceReceiver_on_local_message(st, msg) == st
ExactlyOnceReceiver_on_timer(st, timer_name) == st
ExactlyOnceOrderedReceiver_on_local_message(st, msg) == st
ExactlyOnceOrderedReceiver_on_timer(st, timer_name) == st

WindowedSenderClasses == {"AtLeastOnceSender", "ExactlyOnceSender", "ExactlyOnceOrderedSender"}
SenderClasses == {"AtMostOnceSender"} \cup WindowedSenderClasses
ReceiverClasses == {"AtMostOnceReceiver", "AtLeastOnceReceiver",
                    "ExactlyOnceReceiver", "ExactlyOnceOrderedReceiver"}

WindowOf(class) ==
    CASE class = "AtLeastOnceSender" -> WindowAtLeastOnce
      [] class = "ExactlyOnceSender" -> WindowExactlyOnce
      [] class = "ExactlyOnceOrderedSender" -> WindowExactlyOnceOrdered

ProcessInit(class) ==
    CASE class = "AtMostOnceSender" -> AtMostOnceSenderInit
      [] class \in WindowedSenderClasses -> SenderInit(WindowOf(class))
      [] class = "AtMostOnceReceiver" -> AtMostOnceReceiverInit
      [] class = "AtLeastOnceReceiver" -> AtLeastOnceReceiverInit
      [] class = "ExactlyOnceReceiver" -> ExactlyOnceReceiverInit
      [] class = "ExactlyOnceOrderedReceiver" -> ExactlyOnceOrderedReceiverInit

on_local_message(class, st, msg) ==
    CASE class = "AtMostOnceSender" -> AtMostOnceSender_on_local_message(st, msg)
      [] class \in WindowedSenderClasses -> Sender_on_local_message(st, msg)
      [] class = "AtMostOnceReceiver" -> AtMostOnceReceiver_on_local_message(st, msg)
      [] class = "AtLeastOnceReceiver" -> AtLeastOnceReceiver_on_local_message(st, msg)
      [] class = "ExactlyOnceReceiver" -> ExactlyOnceReceiver_on_local_message(st, msg)
      [] class = "ExactlyOnceOrderedReceiver" ->
             ExactlyOnceOrderedReceiver_on_local_message(st, msg)

on_message(class, st, msg) ==
    CASE class = "AtMostOnceSender" -> AtMostOnceSender_on_message(st, msg)
      [] class \in WindowedSenderClasses -> Sender_on_message(st, msg)
      [] class = "AtMostOnceReceiver" -> AtMostOnceReceiver_on_message(st, msg)
      [] class = "AtLeastOnceReceiver" -> AtLeastOnceReceiver_on_message(st, msg)
      [] class = "ExactlyOnceReceiver" -> ExactlyOnceReceiver_on_message(st, msg)
      [] class = "ExactlyOnceOrderedReceiver" ->
             ExactlyOnceOrderedReceiver_on_message(st, msg)

on_timer(class, st, timer_name) ==
    CASE class = "AtMostOnceSender" -> AtMostOnceSender_on_timer(st, timer_name)
      [] class \in WindowedSenderClasses -> Sender_on_timer(st, timer_name)
      [] class = "AtMostOnceReceiver" -> AtMostOnceReceiver_on_timer(st, timer_name)
      [] class = "AtLeastOnceReceiver" -> AtLeastOnceReceiver_on_timer(st, timer_name)
      [] class = "ExactlyOnceReceiver" -> ExactlyOnceReceiver_on_timer(st, timer_name)
      [] class = "ExactlyOnceOrderedReceiver" ->
             ExactlyOnceOrderedReceiver_on_timer(st, timer_name)

\* a message type and a timer name that are not the protocol's
OtherType == "PING"
OtherTimer == "tick"

LocalEvents ==
    {[entry |-> "on_local_message", msg |-> [type |-> t, text |-> AppText(nInputs + 1)]] :
         t \in {"MESSAGE", OtherType}}

\* the DATA given to the process carry 1..MaxTraceSeq and one number far ahead, beyond
\* the exactly-once receiver's initial bitmap
DataSeqs == (1..MaxTraceSeq) \cup {InitialWin + 1}

WireEvents ==
    {[entry |-> "on_message", msg |-> m] :
         m \in {Data(s, AppText(s)) : s \in DataSeqs}
               \cup {Ack(s) : s \in 1..MaxTraceSeq}
               \cup {[type |-> OtherType, seq |-> 1]}}

TimerEvents == {[entry |-> "on_timer", timer_name |-> n] : n \in {TimerName, OtherTimer}}

\* the process taken alone, at the entry of a handler
ProbeStart ==
    IF trace.of \in SenderClasses THEN [p |-> snd, c |-> NoCtx] ELSE [p |-> rcv, c |-> NoOut]

\* the handler's result st kept: the fields, the Context calls, the runtime's alarm
\* (fired: the alarm this event consumed), and the event in the history
Probed(ev, st, fired) ==
    /\ IF trace.of \in SenderClasses
       THEN /\ snd' = st.p
            /\ ctx' = st.c
            /\ alarms' = ApplyTimerOps(alarms - fired, st.c.ops)
            /\ UNCHANGED <<rcv, out>>
       ELSE /\ rcv' = st.p
            /\ out' = st.c
            /\ UNCHANGED <<snd, ctx, alarms>>
    /\ trace' = [trace EXCEPT !.events =
                    Append(@, [event |-> ev, before |-> ProbeStart.p,
                               after |-> st.p, calls |-> st.c])]
    /\ UNCHANGED <<acked, quiet, log, arrived, count, order, wire>>

InitProbe ==
    \E class \in SenderClasses \cup ReceiverClasses :
        /\ snd = IF class \in SenderClasses THEN ProcessInit(class) ELSE [next_seq |-> 1]
        /\ ctx = NoCtx
        /\ alarms = 0
        /\ nInputs = 0
        /\ acked = {}
        /\ quiet = TRUE
        /\ log = [sent |-> <<>>, arms |-> 0]
        /\ rcv = IF class \in ReceiverClasses THEN ProcessInit(class) ELSE [next_seq |-> 1]
        /\ out = NoOut
        /\ arrived = {}
        /\ count = EmptyMap
        /\ order = <<>>
        /\ trace = [of |-> class, events |-> <<>>]
        /\ wire = {}

\* the application gives the process a local message
ProbeLocalMessage ==
    /\ Len(trace.events) < MaxTrace
    /\ \E ev \in LocalEvents :
           /\ nInputs' = IF ev.msg.type = "MESSAGE" THEN nInputs + 1 ELSE nInputs
           /\ \E st \in {on_local_message(trace.of, ProbeStart, ev.msg)} : Probed(ev, st, 0)

\* the channel hands the process a message
ProbeMessage ==
    /\ Len(trace.events) < MaxTrace
    /\ \E ev \in WireEvents :
           /\ \E st \in {on_message(trace.of, ProbeStart, ev.msg)} : Probed(ev, st, 0)
           /\ UNCHANGED nInputs

\* the runtime enters on_timer: with the name "rtx" it consumes the pending alarm, or
\* finds none pending (nothing outstanding); with another name it leaves the alarm alone
ProbeTimer ==
    /\ Len(trace.events) < MaxTrace
    /\ \E ev \in TimerEvents :
           /\ \E st \in {on_timer(trace.of, ProbeStart, ev.timer_name)} :
                  Probed(ev, st, IF ev.timer_name = TimerName /\ alarms > 0 THEN 1 ELSE 0)
           /\ UNCHANGED nInputs

NextProbe == ProbeLocalMessage \/ ProbeMessage \/ ProbeTimer

SpecProbe == InitProbe /\ [][NextProbe]_vars

(***************************************************************************)
(* Claims about single handlers.                                           *)
(***************************************************************************)
DataEvent(seq) == [entry |-> "on_message", msg |-> Data(seq, AppText(seq))]

IsData(e) == e.event.entry = "on_message" /\ e.event.msg.type = "DATA"

\* what the handlers of the events delivered to the application, in order
RECURSIVE Delivered(_)
Delivered(events) ==
    IF events = <<>> THEN <<>> ELSE Head(events).calls.local \o Delivered(Tail(events))

\* what the handlers of the events sent on the wire, in order
RECURSIVE Replied(_)
Replied(events) ==
    IF events = <<>> THEN <<>> ELSE Head(events).calls.sent \o Replied(Tail(events))

EventsGiven == [i \in DOMAIN trace.events |-> trace.events[i].event]

\* C11: the ordered receiver answers every DATA arrival with exactly one ACK carrying
\* the arrival's own sequence number, whether the number is below next_seq, equal to it
\* or above it; and the arrivals 3, 1, 2, 1 make it deliver text(1), text(2), text(3) in
\* that order and send four ACKs, one per arrival.
C11_OrderedAcks ==
    trace.of = "ExactlyOnceOrderedReceiver" =>
        /\ \A i \in DOMAIN trace.events :
               LET e == trace.events[i]
               IN  IsData(e) => e.calls.sent = <<Ack(e.event.msg.seq)>>
        /\ EventsGiven = <<DataEvent(3), DataEvent(1), DataEvent(2), DataEvent(1)>> =>
               /\ Delivered(trace.events) =
                      <<LocalMsg(AppText(1)), LocalMsg(AppText(2)), LocalMsg(AppText(3))>>
               /\ Replied(trace.events) = <<Ack(3), Ack(1), Ack(2), Ack(1)>>

\* the arrivals 3, 1, 2, 1 have been handled: one buffered, one in sequence releasing
\* nothing, one in sequence releasing the buffered one, one duplicate
C11_Witness ==
    /\ trace.of = "ExactlyOnceOrderedReceiver"
    /\ EventsGiven = <<DataEvent(3), DataEvent(1), DataEvent(2), DataEvent(1)>>
    /\ rcv.next_seq = 4


\* C12: while the at-most-once receiver has seen only numbers of 2..14 (1 missing), it
\* delivers nothing as long as at most 12 different ones have arrived and keeps them all
\* in its buffer; once all 13 have arrived it has skipped ahead and delivered texts 2..14
\* in order, next_seq is 15 and the buffer is empty; the arrival of 1 after that changes
\* nothing and delivers nothing.
C12_SkipAhead ==
    /\ [](arrived \subseteq 2..14 =>
            /\ Cardinality(arrived) <= MaxBuffer =>
                   /\ order = <<>>
                   /\ rcv.next_seq = 1
                   /\ DOMAIN rcv.buffer = arrived
            /\ arrived = 2..14 =>
                   /\ order = [i \in 1..13 |-> [seq |-> i + 1, text |-> AppText(i + 1)]]
                   /\ rcv.next_seq = 15
                   /\ DOMAIN rcv.buffer = {})
    /\ [][(DataArrivesAMO /\ arrived = 2..14 /\ arrived' = 1..14) =>
              /\ rcv' = rcv
              /\ out' = NoOut
              /\ order' = order
              /\ count' = count]_vars

\* 2..14 were delivered by the skip-ahead and 1 arrived afterwards
C12_Witness ==
    /\ arrived = 1..14
    /\ rcv.next_seq = 15
    /\ Len(order) = 13
    /\ count[1] = 0
    /\ out = NoOut


\* C13: the exactly-once receiver answers every DATA arrival with exactly one ACK
\* carrying the arrival's sequence number, in every branch: below next_seq (nothing
\* delivered, nothing changed), equal to next_seq (delivered), ahead of next_seq with
\* its bit unset (delivered) and ahead of next_seq with its bit set (not delivered).
C13_AlwaysAcks ==
    trace.of = "ExactlyOnceReceiver" =>
        \A i \in DOMAIN trace.events :
            LET e == trace.events[i]
                b == e.before
                seq == e.event.msg.seq
                offset == seq - b.next_seq
                marked == offset < b.win /\ b.seen[(b.head + offset) % b.win] = 1
                text == <<LocalMsg(e.event.msg.text)>>
            IN  IsData(e) =>
                    /\ e.calls.sent = <<Ack(seq)>>
                    /\ e.calls.local = IF offset < 0 \/ (offset > 0 /\ marked) THEN <<>> ELSE text
                    /\ offset < 0 => e.after = b

\* one arrival ahead of next_seq, the same again, next_seq itself, and that one again
C13_Witness ==
    /\ trace.of = "ExactlyOnceReceiver"
    /\ EventsGiven = <<DataEvent(2), DataEvent(2), DataEvent(1), DataEvent(1)>>
    /\ rcv.next_seq = 3


(***************************************************************************)
(* Specification of the windowed sender alone in which on_timer is also    *)
(* entered with no alarm pending, which is when nothing is outstanding.    *)
(***************************************************************************)
LateTimerFires ==
    /\ alarms = 0
    /\ quiet' = FALSE
    /\ \E st \in {Sender_on_timer(Start, TimerName)} :
           Run(st) /\ alarms' = ApplyTimerOps(alarms, st.c.ops)
    /\ UNCHANGED <<nInputs, acked, rcvVars, wire>>

NextTimer == Next \/ LateTimerFires

SpecTimer == Init /\ [][NextTimer]_vars

\* C14: a timer fire with nothing outstanding sends nothing and leaves the timer
\* disarmed; otherwise it sends exactly one DATA, seq = base with the text unacked[base],
\* and arms the timer once; either way next_seq, base, unacked and pending (with its
\* index) are what they were.
C14_GoBackOne ==
    [][(TimerFires \/ LateTimerFires) =>
          /\ snd'.next_seq = snd.next_seq
          /\ snd'.base = snd.base
          /\ snd'.unacked = snd.unacked
          /\ snd'.pending = snd.pending
          /\ snd'.pending_idx = snd.pending_idx
          /\ IF DOMAIN snd.unacked = {}
             THEN /\ ctx'.sent = <<>>
                  /\ ctx'.ops = <<>>
                  /\ ~snd'.timer_active
                  /\ alarms' = 0
             ELSE /\ ctx'.sent = <<Data(snd.base, snd.unacked[snd.base])>>
                  /\ ctx'.ops = <<"set">>
                  /\ snd'.timer_active
                  /\ alarms' = 1]_vars

\* the timer fired with several items outstanding behind an acknowledged base and texts
\* waiting in pending: one DATA, the one of base, was sent
C14_Witness ==
    /\ ctx.assigned = <<>>
    /\ ctx.ops = <<"set">>
    /\ Len(ctx.sent) = 1
    /\ ctx.sent[1].seq = snd.base
    /\ snd.base > 1
    /\ Cardinality(DOMAIN snd.unacked) >= 2
    /\ snd.pending_idx < Len(snd.pending)


IsInput(e) == e.event.entry = "on_local_message" /\ e.event.msg.type = "MESSAGE"

\* the number of application MESSAGE inputs among the first i events
InputsUpTo(i) == Cardinality({j \in 1..i : IsInput(trace.events[j])})

\* C15: the at-most-once sender answers its k-th application MESSAGE input with exactly
\* one wire send, DATA{seq = k} carrying the input's text, and every other event (a wire
\* message, a timer, a local message of another type) with no send and no change of
\* state; it never touches a timer.
C15_SendOnce ==
    trace.of = "AtMostOnceSender" =>
        \A i \in DOMAIN trace.events :
            LET e == trace.events[i]
                k == InputsUpTo(i)
            IN  /\ e.calls.ops = <<>>
                /\ IF IsInput(e)
                   THEN /\ e.calls.sent = <<Data(k, e.event.msg.text)>>
                        /\ e.before.next_seq = k
                        /\ e.after.next_seq = k + 1
                   ELSE /\ e.calls.sent = <<>>
                        /\ e.after = e.before

\* two inputs with a wire message and a timer event between them
C15_Witness ==
    /\ trace.of = "AtMostOnceSender"
    /\ Len(trace.events) = 4
    /\ IsInput(trace.events[1])
    /\ trace.events[2].event.entry = "on_message"
    /\ trace.events[3].event.entry = "on_timer"
    /\ IsInput(trace.events[4])
    /\ snd.next_seq = 3


\* C16: the at-least-once receiver answers every DATA{seq, text} arrival, duplicate or
\* not, with exactly one delivery of text and exactly one ACK{seq}, and keeps no state:
\* a sequence number that arrived k times was delivered k times.
C16_DeliverAndAck ==
    trace.of = "AtLeastOnceReceiver" =>
        /\ rcv = AtLeastOnceReceiverInit
        /\ \A i \in DOMAIN trace.events :
               LET e == trace.events[i]
               IN  IsData(e) => /\ e.calls.local = <<LocalMsg(e.event.msg.text)>>
                                /\ e.calls.sent = <<Ack(e.event.msg.seq)>>
        /\ \A s \in DataSeqs :
               Cardinality({i \in DOMAIN trace.events : trace.events[i].calls.seqs = <<s>>})
                   = Cardinality({i \in DOMAIN trace.events : trace.events[i].event = DataEvent(s)})

\* the same DATA arrived three times after another one and was delivered three times
C16_Witness ==
    /\ trace.of = "AtLeastOnceReceiver"
    /\ EventsGiven = <<DataEvent(1), DataEvent(2), DataEvent(2), DataEvent(2)>>
    /\ Len(Delivered(trace.events)) = 4


\* an event its handler does not recognize: a local message whose type is not MESSAGE;
\* a wire message that is not an ACK (windowed sender), not a DATA (receiver), or of any
\* type (at-most-once sender); a timer that is not the windowed sender's "rtx"
Unrecognized(class, ev) ==
    CASE ev.entry = "on_local_message" -> ev.msg.type # "MESSAGE"
      [] ev.entry = "on_message" ->
             IF class \in WindowedSenderClasses THEN ev.msg.type # "ACK"
             ELSE IF class \in ReceiverClasses THEN ev.msg.type # "DATA"
             ELSE TRUE
      [] ev.entry = "on_timer" ->
             class \in WindowedSenderClasses => ev.timer_name # TimerName

\* C17: at every entry point of every sender and receiver class, the handler of an
\* unrecognized event leaves every field of the process as it was and makes no Context
\* call: no wire send, no delivery, no timer operation.
C17_IgnoresUnrecognized ==
    \A i \in DOMAIN trace.events :
        LET e == trace.events[i]
        IN  Unrecognized(trace.of, e.event) =>
                /\ e.after = e.before
                /\ e.calls = IF trace.of \in SenderClasses THEN NoCtx ELSE NoOut

\* a windowed sender with an item outstanding and its timer armed was given a local
\* message, a wire message and a timer it does not recognize
C17_Witness ==
    /\ trace.of = "ExactlyOnceOrderedSender"
    /\ Len(trace.events) = 4
    /\ IsInput(trace.events[1])
    /\ trace.events[2].event.entry = "on_local_message"
    /\ trace.events[3].event.entry = "on_message"
    /\ trace.events[4].event.entry = "on_timer"
    /\ \A i \in 2..4 : Unrecognized(trace.of, trace.events[i].event)
    /\ snd.timer_active
    /\ alarms = 1


\* with n alarms pending, every set_timer_once among ops is made while none is pending
RECURSIVE NeverStacks(_, _)
NeverStacks(n, ops) ==
    IF ops = <<>> THEN TRUE
    ELSE IF Head(ops) = "set" THEN n = 0 /\ NeverStacks(1, Tail(ops))
    ELSE NeverStacks(0, Tail(ops))

\* C18: the runtime never holds more than one pending "rtx" alarm of the windowed
\* sender, and every set_timer_once of every handler is made while no alarm is pending:
\* none was armed, the sender has just cancelled it, or it has just fired.
C18_NoStackedAlarms ==
    /\ [](alarms <= 1)
    /\ [][/\ TimerFires => NeverStacks(alarms - 1, ctx'.ops)
          /\ (LocalMessage \/ AckArrives) => NeverStacks(alarms, ctx'.ops)]_vars

\* an ACK moved base while other items stay outstanding: the pending alarm was
\* cancelled and a new one armed
C18_Witness ==
    /\ ctx.ops = <<"cancel", "set">>
    /\ ctx.assigned = <<>>
    /\ snd.base > 1
    /\ alarms = 1


\* C19: the windowed sender assigns the sequence numbers 1, 2, 3, ... in turn, each
\* once: a handler's assignments start at the next_seq it was entered with, are
\* consecutive and move next_seq past them, and the k-th input is the one that gets k;
\* every DATA transmitted, first transmission or retransmission, carries the text bound
\* to its sequence number, the text of the input that got that number.
C19_SeqAndText ==
    /\ [](/\ snd.next_seq - 1 = nInputs - (Len(snd.pending) - snd.pending_idx)
          /\ \A i \in DOMAIN ctx.sent :
                 /\ ctx.sent[i].seq \in 1..(snd.next_seq - 1)
                 /\ ctx.sent[i] = Data(ctx.sent[i].seq, AppText(ctx.sent[i].seq))
          /\ \A s \in DOMAIN snd.unacked : snd.unacked[s] = AppText(s))
    /\ [][/\ snd'.next_seq = snd.next_seq + Len(ctx'.assigned)
          /\ \A i \in DOMAIN ctx'.assigned : ctx'.assigned[i].seq = snd.next_seq + i - 1]_vars

\* a number that was assigned to a text taken from pending is retransmitted by the timer
C19_Witness ==
    /\ ctx.assigned = <<>>
    /\ Len(ctx.sent) = 1
    /\ ctx.sent[1].seq > snd.window + 1
    /\ ctx.sent[1].seq = snd.base


\* C20: after every handler the at-most-once receiver's buffer holds at most 12
\* entries, and every number that has arrived and is not below next_seq is in it; when
\* an arrival ahead of next_seq finds 12 entries and is not among them, the same handler
\* skips ahead: it delivers from the smallest of the 13 keys upwards as far as they are
\* contiguous, next_seq ends just past that run, and only the keys beyond it stay.
C20_BufferCap ==
    /\ [](/\ Cardinality(DOMAIN rcv.buffer) <= MaxBuffer
          /\ \A s \in arrived : s < rcv.next_seq \/ s \in DOMAIN rcv.buffer)
    /\ [][(/\ DataArrivesAMO
           /\ Cardinality(DOMAIN rcv.buffer) = MaxBuffer
           /\ arrived' # arrived
           /\ \A s \in arrived' \ arrived : s > rcv.next_seq) =>
              LET keys == DOMAIN rcv.buffer \cup (arrived' \ arrived)
                  lowest == MinOf(keys)
              IN  /\ Cardinality(keys) = MaxBuffer + 1
                  /\ out'.seqs = [i \in 1..(rcv'.next_seq - lowest) |-> lowest + i - 1]
                  /\ rcv'.next_seq > lowest
                  /\ rcv'.next_seq \notin keys
                  /\ DOMAIN rcv'.buffer = {k \in keys : k > rcv'.next_seq}
                  /\ Cardinality(DOMAIN rcv'.buffer) < Cardinality(keys)]_vars

\* a thirteenth key arrived: the skip-ahead delivered the lowest run, the first
\* deliveries ever, and the keys beyond the next gap stay buffered
C20_Witness ==
    /\ out.seqs # <<>>
    /\ Len(order) = Len(out.seqs)
    /\ order[1].seq > 1
    /\ DOMAIN rcv.buffer # {}
    /\ Cardinality(arrived) = MaxBuffer + 1


\* the smallest of the numbers from..limit that is in keys, limit if there is none
FirstIn(keys, from, limit) ==
    IF \E b \in from..(limit - 1) : b \in keys
    THEN MinOf({b \in from..(limit - 1) : b \in keys})
    ELSE limit

\* C21: the handler of ACK{seq} removes seq from unacked if it is there and nothing
\* else; base then stands at the first number still in unacked, or at the next_seq the
\* handler was entered with if there is none; if unacked is then empty the timer is
\* cancelled (if it was armed), if not it is cancelled and armed again exactly when base
\* has moved and left untouched otherwise; the drain of pending that follows arms the
\* timer only if unacked was empty.
C21_AckHandling ==
    [][\A seq \in AckSeqs : AckArrivesOf(seq) =>
          LET keys == DOMAIN snd.unacked \ {seq}
              newbase == FirstIn(keys, snd.base, snd.next_seq)
              ackOps == IF keys = {}
                        THEN IF snd.timer_active THEN <<"cancel">> ELSE <<>>
                        ELSE IF newbase # snd.base THEN <<"cancel", "set">> ELSE <<>>
              drainOps == IF keys = {} /\ ctx'.assigned # <<>> THEN <<"set">> ELSE <<>>
          IN  /\ {s \in DOMAIN snd'.unacked : s < snd.next_seq} = keys
              /\ \A s \in keys : snd'.unacked[s] = snd.unacked[s]
              /\ snd'.base = newbase
              /\ ctx'.ops = ackOps \o drainOps]_vars

\* an ACK moved base while older items stay outstanding, the timer was restarted, and
\* the same handler moved texts from pending into the freed slots
C21_Witness ==
    /\ ctx.ops = <<"cancel", "set">>
    /\ Len(ctx.assigned) >= 2
    /\ \E s \in DOMAIN snd.unacked : s < ctx.assigned[1].seq
    /\ snd.base > 2


\* C22: after every handler of the windowed sender base is the smallest key of
\* unacked, or next_seq when unacked is empty; so a timer fire that finds unacked
\* non-empty finds base among its keys and does send a retransmission.
C22_BaseIsOldest ==
    /\ [](snd.base = IF DOMAIN snd.unacked = {} THEN snd.next_seq
                     ELSE MinOf(DOMAIN snd.unacked))
    /\ [][(TimerFires /\ DOMAIN snd.unacked # {}) =>
              /\ snd.base \in DOMAIN snd.unacked
              /\ Len(ctx'.sent) = 1]_vars

\* the timer fired after ACKs had arrived out of order and base had moved over several
\* numbers: the retransmission is the one of base, with acknowledged numbers above it
C22_Witness ==
    /\ ctx.assigned = <<>>
    /\ ctx.ops = <<"set">>
    /\ ctx.sent = <<Data(snd.base, snd.unacked[snd.base])>>
    /\ snd.base > 2
    /\ \E s \in acked : s > snd.base


\* C23: in the ordered pair (window 4) over a channel that drops, duplicates and
\* reorders, the receiver's buffer never holds more than window - 1 = 3 entries, and
\* every key in it is above the receiver's next_seq and below the sender's
\* base + window.
C23_BoundedBuffer ==
    /\ snd.window = WindowExactlyOnceOrdered
    /\ Cardinality(DOMAIN rcv.buffer) <= snd.window - 1
    /\ \A k \in DOMAIN rcv.buffer : rcv.next_seq < k /\ k < snd.base + snd.window

\* a full window was sent, the first DATA has not arrived and the three behind it wait
\* in the buffer, while a fifth input waits in the sender's pending
C23_Witness ==
    /\ Cardinality(DOMAIN rcv.buffer) = WindowExactlyOnceOrdered - 1
    /\ rcv.next_seq = snd.base
    /\ snd.pending_idx < Len(snd.pending)


(***************************************************************************)
(* Specification of the exactly-once pair over the channel of the          *)
(* at-least-once pair, with the same inputs and the same fairness.         *)
(***************************************************************************)
InitExactlyOnce ==
    /\ SenderStart(WindowExactlyOnce)
    /\ rcv = ExactlyOnceReceiverInit
    /\ out = NoOut
    /\ arrived = {}
    /\ count = [s \in 1..MaxPairInputs |-> 0]
    /\ order = <<>>
    /\ trace = NoTrace
    /\ wire = {}

\* DATA m reaches the exactly-once receiver
DataArrivesExactlyOnce(m, keep) ==
    /\ m \in wire
    /\ m.type = "DATA"
    /\ \E st \in {ExactlyOnceReceiver_on_message(ReceiverStart, m)} :
           /\ rcv' = st.p
           /\ count' = CountCapped(count, st.c.seqs)
           /\ wire' \in Puts(IF keep THEN wire ELSE wire \ {m}, st.c.sent)
    /\ UNCHANGED <<sndVars, out, arrived, order, trace>>

BaseDataArrivesExactlyOnce ==
    \E m \in wire, keep \in BOOLEAN : m.seq = snd.base /\ DataArrivesExactlyOnce(m, keep)

NextExactlyOnce ==
    \/ PairLocalMessage(MaxPairInputs)
    \/ PairTimerFires
    \/ \E m \in PairAcks(MaxPairInputs), keep \in BOOLEAN : PairAckArrives(m, keep)
    \/ \E m \in PairData(MaxPairInputs), keep \in BOOLEAN : DataArrivesExactlyOnce(m, keep)
    \/ PairDrop

FairExactlyOnce ==
    /\ WF_vars(PairTimerFires)
    /\ SF_vars(BaseDataArrivesExactlyOnce)
    /\ SF_vars(BaseAckArrives)

SpecExactlyOnce == InitExactlyOnce /\ [][NextExactlyOnce]_vars /\ FairExactlyOnce

\* nothing outstanding, nothing waiting, the timer disarmed
Quiescent ==
    /\ DOMAIN snd.unacked = {}
    /\ snd.pending_idx = Len(snd.pending)
    /\ ~snd.timer_active
    /\ alarms = 0
    /\ snd.base = snd.next_seq

\* C24: in the exactly-once pair over a fair channel that drops, duplicates, delays and
\* reorders, no input is ever delivered more than once, and, the inputs being finitely
\* many, from some moment on every input given has been delivered exactly once and the
\* sender is at rest: unacked empty, pending drained, timer disarmed, base = next_seq.
C24_ExactlyOncePair ==
    /\ [](\A k \in DOMAIN count : count[k] <= 1 /\ (count[k] = 1 => k <= nInputs))
    /\ <>[](/\ \A k \in 1..nInputs : count[k] = 1
            /\ Quiescent)

\* every input was delivered once, out of order, the sender is at rest, and a
\* duplicate DATA is still in flight
C24_Witness ==
    /\ nInputs = MaxPairInputs
    /\ \A k \in 1..MaxPairInputs : count[k] = 1
    /\ Quiescent
    /\ \E m \in wire : m.type = "DATA"


\* the sequence number has been handed to the application
HasBeenDelivered(seq) == seq \in DOMAIN count /\ count[seq] >= 1

\* C25: after every DATA handler of the exactly-once receiver, every number below
\* next_seq has been delivered, next_seq has not and the bit at head is 0, and for
\* 0 < d < win the bit at (head + d) mod win is 1 exactly when next_seq + d has been
\* delivered.
C25_Representation ==
    /\ \A s \in 1..(rcv.next_seq - 1) : HasBeenDelivered(s)
    /\ ~HasBeenDelivered(rcv.next_seq)
    /\ rcv.seen[rcv.head] = 0
    /\ DOMAIN rcv.seen = 0..(rcv.win - 1)
    /\ \A d \in 1..(rcv.win - 1) :
           rcv.seen[(rcv.head + d) % rcv.win] = 1 <=> HasBeenDelivered(rcv.next_seq + d)

\* an offset-0 delivery has just carried next_seq past a run of two marked numbers and
\* their bits, in a bitmap that has grown, while a number further ahead stays marked
C25_Witness ==
    /\ Len(out.seqs) = 1
    /\ rcv.next_seq = out.seqs[1] + 3
    /\ rcv.win > InitialWin
    /\ rcv.head > 0
    /\ \E d \in 1..(rcv.win - 1) : rcv.seen[(rcv.head + d) % rcv.win] = 1


(***************************************************************************)
(* Specification of the exactly-once receiver alone with DATA far ahead:   *)
(* gaps that double the bitmap once, several times, up to the ceiling, and *)
(* gaps wider than the ceiling.  trace keeps the last _ensure_window call  *)
(* (event = offset, before, after), order the offsets that grew the bitmap.*)
(***************************************************************************)
GrowSeqs ==
    {1, 2, 3, InitialWin + 2, 4 * InitialWin, WinCeiling - 1, WinCeiling + MaxFar,
     WinCeiling + 4 * MaxFar}

InitGrow ==
    /\ NoSender
    /\ rcv = ExactlyOnceReceiverInit
    /\ out = NoOut
    /\ arrived = {}
    /\ count = [s \in GrowSeqs |-> 0]
    /\ order = <<>>
    /\ trace = NoTrace
    /\ wire = {}

EnsureWindowCall(r, offset) ==
    [of |-> "_ensure_window",
     events |-> <<[event |-> offset, before |-> r, after |-> ensure_window(r, offset),
                   calls |-> NoOut]>>]

DataArrivesGrow ==
    \E seq \in GrowSeqs :
        /\ \E st \in {ExactlyOnceReceiver_on_message(ReceiverStart, Data(seq, AppText(seq)))} :
               /\ Received(st, seq)
               /\ order' = IF st.p.win # rcv.win
                           THEN Append(order, seq - rcv.next_seq) ELSE order
        /\ trace' = IF seq < rcv.next_seq THEN NoTrace
                    ELSE EnsureWindowCall(rcv, seq - rcv.next_seq)
        /\ UNCHANGED <<sndVars, wire>>

NextGrow == DataArrivesGrow

SpecGrow == InitGrow /\ [][NextGrow]_vars

\* the flag at logical offset d from head
FlagAt(r, d) == r.seen[(r.head + d) % r.win]

\* C26: _ensure_window(offset) with offset >= win leaves a capacity above offset, head 0,
\* the flag of every logical offset below the old capacity as it was, every added offset
\* unset and next_seq as it was; with offset < win it changes nothing.
C26_EnsureWindow ==
    trace.of = "_ensure_window" =>
        LET e == trace.events[1]
            offset == e.event
            b == e.before
            a == e.after
        IN  IF offset < b.win THEN a = b
            ELSE /\ a.win > offset
                 /\ a.head = 0
                 /\ DOMAIN a.seen = 0..(a.win - 1)
                 /\ \A d \in 0..(b.win - 1) : FlagAt(a, d) = FlagAt(b, d)
                 /\ \A d \in b.win..(a.win - 1) : FlagAt(a, d) = 0
                 /\ a.next_seq = b.next_seq
                 /\ DOMAIN a = DOMAIN b

\* a bitmap that had grown before, with head off 0 and a number marked ahead, grows again
C26_Witness ==
    /\ trace.of = "_ensure_window"
    /\ LET e == trace.events[1]
       IN  /\ e.event >= e.before.win
           /\ e.before.win > InitialWin
           /\ e.before.head > 0
           /\ \E d \in 1..(e.before.win - 1) : FlagAt(e.before, d) = 1
           /\ \E d \in 1..(e.before.win - 1) : FlagAt(e.after, d) = 1

\* C27: the capacity starts at 32 and never shrinks; when it grows, for an arrival at an
\* offset not below it, it doubles until it exceeds the offset or reaches 1024, and is set
\* to offset + 1 only if the offset is still not covered; so a capacity above 1024 has
\* been preceded by an arrival at an offset of at least 1024.
C27_Capacity ==
    /\ [](/\ rcv.win >= InitialWin
          /\ rcv.win > WinCeiling => \E i \in DOMAIN order : order[i] >= WinCeiling)
    /\ [][/\ rcv'.win >= rcv.win
          /\ rcv'.win > rcv.win =>
                 LET offset == order'[Len(order')]
                 IN  /\ order' = Append(order, offset)
                     /\ offset >= rcv.win
                     /\ \E n \in 0..(WinCeiling \div InitialWin) :
                            LET doubled == rcv.win * (2 ^ n)
                            IN  /\ \A j \in 0..(n - 1) :
                                       /\ offset >= rcv.win * (2 ^ j)
                                       /\ rcv.win * (2 ^ j) < WinCeiling
                                /\ offset < doubled \/ doubled >= WinCeiling
                                /\ rcv'.win = IF offset >= doubled THEN offset + 1
                                              ELSE doubled]_vars

\* the capacity has been doubled more than once in one call, has been doubled up to the
\* ceiling, and after that has been sized to fit a wider gap
C27_Witness ==
    /\ Len(order) >= 3
    /\ \E i \in DOMAIN order : order[i] >= 2 * InitialWin /\ order[i] < WinCeiling \div 2
    /\ \E i \in DOMAIN order : order[i] >= WinCeiling \div 2 /\ order[i] < WinCeiling
    /\ order[Len(order)] >= WinCeiling
    /\ rcv.win = order[Len(order)] + 1


\* the texts of pending not read yet, oldest first
Unread(p) == SubSeq(p.pending, p.pending_idx + 1, Len(p.pending))

\* C28: after every handler of the windowed sender the unread part of pending is empty
\* or the window is full; an ACK that frees k slots moves the oldest min(k, unread) texts
\* of pending into the window, in their order, in the same handler; an input that finds
\* texts waiting is queued behind them and not sent.
C28_PendingOrFull ==
    /\ [](Unread(snd) = <<>> \/ snd.next_seq = snd.base + snd.window)
    /\ [][\A seq \in AckSeqs : AckArrivesOf(seq) =>
              LET k == (snd'.base + snd.window - snd.next_seq)
                  moved == Min(k, Len(Unread(snd)))
              IN  /\ snd'.next_seq = snd.next_seq + moved
                  /\ ctx'.sent = [i \in 1..moved |->
                                     Data(snd.next_seq + i - 1, Unread(snd)[i])]
                  /\ Unread(snd') = SubSeq(Unread(snd), moved + 1, Len(Unread(snd)))]_vars
    /\ [][(LocalMessage /\ Unread(snd) # <<>>) =>
              /\ snd'.next_seq = snd.next_seq
              /\ ctx'.sent = <<>>
              /\ Unread(snd') = Append(Unread(snd), AppText(nInputs'))]_vars

\* one ACK has freed two slots while more than two texts were waiting: two DATA were
\* sent from pending, the window is full again and texts are still waiting
C28_Witness ==
    /\ Len(ctx.sent) = 2
    /\ Len(ctx.assigned) = 2
    /\ ctx.sent[1].seq > snd.window
    /\ Unread(snd) # <<>>
    /\ snd.next_seq = snd.base + snd.window

\* C29: under any interleaving of inputs, ACKs and timer fires the text held for
\* sequence number k, in unacked and in every DATA with seq k, is the text of the k-th
\* input, and the texts waiting in pending are those of the inputs next_seq, next_seq + 1,
\* ... up to the last input, in input order: numbers follow input order whether a text
\* was sent at once or waited in pending.
C29_TextOfKthInput ==
    /\ Len(Unread(snd)) = nInputs - (snd.next_seq - 1)
    /\ \A i \in DOMAIN Unread(snd) : Unread(snd)[i] = AppText(snd.next_seq - 1 + i)
    /\ \A k \in DOMAIN snd.unacked : k \in 1..nInputs /\ snd.unacked[k] = AppText(k)
    /\ \A i \in DOMAIN ctx.sent :
           /\ ctx.sent[i].type = "DATA"
           /\ ctx.sent[i].seq \in 1..nInputs
           /\ ctx.sent[i].text = AppText(ctx.sent[i].seq)
    /\ \A i \in DOMAIN ctx.assigned :
           \E j \in DOMAIN ctx.sent :
               ctx.sent[j] = Data(ctx.assigned[i].seq, AppText(ctx.assigned[i].seq))

\* texts that waited in pending through a compaction have been numbered by an ACK's
\* drain, one is outstanding with its text, and others are still waiting
C29_Witness ==
    /\ Len(ctx.assigned) >= 1
    /\ ctx.assigned[1].seq > snd.window + 2
    /\ ctx.assigned[1].seq \in DOMAIN snd.unacked
    /\ snd.pending_idx = 0
    /\ Len(Unread(snd)) >= 2


(***************************************************************************)
(* Specification of the exactly-once pair with more inputs than the window *)
(* holds.  The channel keeps every message ever sent and may hand over any *)
(* of them at any time, any number of times: a message never handed over   *)
(* is dropped, one handed over again is duplicated, and the order is free. *)
(***************************************************************************)
MaxWindowInputs == WindowExactlyOnce + MaxPairExtra

RECURSIVE Sent(_)
Sent(msgs) == IF msgs = <<>> THEN {} ELSE {Head(msgs)} \cup Sent(Tail(msgs))

\* the result st of a sender handler: its fields, the runtime's alarm, the channel
WindowSender(st, fired) ==
    /\ snd' = st.p
    /\ alarms' = ApplyTimerOps(alarms - fired, st.c.ops)
    /\ wire' = wire \cup Sent(st.c.sent)
    /\ UNCHANGED <<ctx, acked, quiet, log, rcvVars>>

InitWindow ==
    /\ SenderStart(WindowExactlyOnce)
    /\ rcv = ExactlyOnceReceiverInit
    /\ out = NoOut
    /\ arrived = {}
    /\ count = [s \in 1..MaxWindowInputs |-> 0]
    /\ order = <<>>
    /\ trace = NoTrace
    /\ wire = {}

WindowLocalMessage ==
    /\ nInputs < MaxWindowInputs
    /\ nInputs' = nInputs + 1
    /\ \E st \in {Sender_on_local_message(Start, LocalMsg(AppText(nInputs + 1)))} :
           WindowSender(st, 0)

WindowTimerFires ==
    /\ alarms > 0
    /\ \E st \in {Sender_on_timer(Start, TimerName)} : WindowSender(st, 1)
    /\ UNCHANGED nInputs

WindowAckArrives ==
    \E m \in wire :
        /\ m.type = "ACK"
        /\ \E st \in {Sender_on_message(Start, m)} : WindowSender(st, 0)
        /\ UNCHANGED nInputs

WindowDataArrives ==
    \E m \in wire :
        /\ m.type = "DATA"
        /\ \E st \in {ExactlyOnceReceiver_on_message(ReceiverStart, m)} :
               /\ rcv' = st.p
               /\ count' = CountCapped(count, st.c.seqs)
               /\ wire' = wire \cup Sent(st.c.sent)
        /\ UNCHANGED <<sndVars, out, arrived, order, trace>>

NextWindow ==
    \/ WindowLocalMessage
    \/ WindowTimerFires
    \/ WindowAckArrives
    \/ WindowDataArrives

SpecWindow == InitWindow /\ [][NextWindow]_vars

\* C30: in the exactly-once pair (window 10) over a channel that drops, duplicates and
\* reorders, every DATA that can reach the receiver has seq < receiver next_seq + 10, so
\* every offset is below the initial capacity of 32 and the bitmap stays at that capacity.
C30_NeverGrows ==
    /\ \A m \in wire : m.type = "DATA" => m.seq < rcv.next_seq + WindowExactlyOnce
    /\ WindowExactlyOnce <= InitialWin
    /\ rcv.win = InitialWin

\* the DATA of the input beyond the first window has arrived at offset 9, the widest
\* gap there is, with the receiver still waiting for number 2
C30_Witness ==
    /\ rcv.next_seq = 2
    /\ FlagAt(rcv, WindowExactlyOnce - 1) = 1
    /\ count[MaxWindowInputs] = 1
    /\ rcv.win = InitialWin


\* C31: an ACK whose seq is not in unacked, already acknowledged or never assigned,
\* changes nothing of the windowed sender (next_seq, base, unacked, pending, timer),
\* makes no timer call and sends nothing; so the same ACK processed a second time leaves
\* the state the first processing left.
C31_StaleAck ==
    [][\A seq \in AckSeqs : AckArrivesOf(seq) =>
           /\ seq \notin DOMAIN snd'.unacked
           /\ seq \notin DOMAIN snd.unacked =>
                  /\ snd' = snd
                  /\ alarms' = alarms
                  /\ ctx' = NoCtx
           /\ LET again == Sender_on_message([p |-> snd', c |-> NoCtx], Ack(seq))
              IN  again.p = snd' /\ again.c = NoCtx]_vars

\* the last handler was an ACK that found its number gone: nothing was called, one
\* number is outstanding, the one assigned last, and the timer is still pending
C31_Witness ==
    /\ ~quiet
    /\ ctx = NoCtx
    /\ snd.pending = <<>>
    /\ snd.base > 1
    /\ DOMAIN snd.unacked = {snd.base}
    /\ snd.next_seq = snd.base + 1
    /\ snd.timer_active
    /\ alarms = 1

\* C32: 0 <= pending_idx <= len(pending) in every reachable state of the windowed
\* sender; the drain that ends an ACK handler compacts pending exactly when it leaves
\* pending_idx > 0 with pending_idx * 2 >= len(pending), compaction sets pending_idx
\* to 0 and keeps the texts not sent yet, in order; no other handler moves pending_idx.
C32_PendingCursor ==
    /\ [](0 <= snd.pending_idx /\ snd.pending_idx <= Len(snd.pending))
    /\ [][\A seq \in AckSeqs : AckArrivesOf(seq) =>
              LET read == snd.pending_idx + (snd'.next_seq - snd.next_seq)
              IN  IF read > 0 /\ read * 2 >= Len(snd.pending)
                  THEN /\ snd'.pending_idx = 0
                       /\ snd'.pending = SubSeq(snd.pending, read + 1, Len(snd.pending))
                  ELSE /\ snd'.pending_idx = read
                       /\ snd'.pending = snd.pending]_vars
    /\ [][(LocalMessage \/ TimerFires) =>
              /\ snd'.pending_idx = snd.pending_idx
              /\ Unread(snd') \in {Unread(snd), Append(Unread(snd), AppText(nInputs'))}]_vars

\* an ACK's drain has read less than half of pending: the cursor stays off 0 over a
\* list that still holds the text already sent
C32_Uncompacted ==
    /\ snd.pending_idx > 0
    /\ snd.pending_idx * 2 < Len(snd.pending)
    /\ Len(ctx.assigned) = snd.pending_idx
    /\ ctx.assigned[1].seq > snd.window

\* an ACK's drain has read half of pending or more: the list was cut to the texts that
\* still wait
C32_Witness ==
    /\ snd.pending_idx = 0
    /\ snd.pending # <<>>
    /\ Len(ctx.assigned) >= 2
    /\ ctx.assigned[1].seq > snd.window

====
